---- MODULE Spec2Model ----
(***************************************************************************)
(* PitchShifter (src/src/index.ts): a Tone.js Sampler wrapper that plays   *)
(* reference tones.  The model covers one PitchShifter instance, the       *)
(* Tone.js objects it drives (the audio context, the samplers it creates)  *)
(* and the JavaScript event loop: every synchronous stretch of code is one *)
(* action, an `await` splits a method into the call and its resumptions,   *)
(* and a setTimeout callback is an action that fires any time after it was *)
(* scheduled.                                                              *)
(***************************************************************************)
EXTENDS Integers, Sequences, FiniteSets, TLC

(* ------------------------------ bounds -------------------------------- *)
\* samplers one instance may create (new Tone.Sampler) in a run
MaxSamplers == 2
\* release timers (setTimeout) that may be pending at once
MaxTimers == 2
\* initialize() calls that may be suspended on an await at once
MaxInits == 1

(* --------------------------- the static table -------------------------- *)
\* a faulty table: the last two entries are exchanged
AVAILABLE_NOTES_Exchanged ==
  << [note |-> "C4",  frequency |-> 26163],
     [note |-> "C#4", frequency |-> 27718],
     [note |-> "D4",  frequency |-> 29366],
     [note |-> "D#4", frequency |-> 31113],
     [note |-> "E4",  frequency |-> 32963],
     [note |-> "F4",  frequency |-> 34923],
     [note |-> "F#4", frequency |-> 36999],
     [note |-> "G4",  frequency |-> 39200],
     [note |-> "G#4", frequency |-> 41530],
     [note |-> "A4",  frequency |-> 44000],
     [note |-> "A#4", frequency |-> 46616],
     [note |-> "B4",  frequency |-> 49388],
     [note |-> "C5",  frequency |-> 52325],
     [note |-> "E5",  frequency |-> 65925],
     [note |-> "D5",  frequency |-> 58733] >>

\* AVAILABLE_NOTES; frequency in hundredths of a Hz (261.63 -> 26163).
\* This is the array as the class initializer builds it.
\* japaneseName is a display label no operation reads; it is left out.
AVAILABLE_NOTES ==
  << [note |-> "C4",  frequency |-> 26163],
     [note |-> "C#4", frequency |-> 27718],
     [note |-> "D4",  frequency |-> 29366],
     [note |-> "D#4", frequency |-> 31113],
     [note |-> "E4",  frequency |-> 32963],
     [note |-> "F4",  frequency |-> 34923],
     [note |-> "F#4", frequency |-> 36999],
     [note |-> "G4",  frequency |-> 39200],
     [note |-> "G#4", frequency |-> 41530],
     [note |-> "A4",  frequency |-> 44000],
     [note |-> "A#4", frequency |-> 46616],
     [note |-> "B4",  frequency |-> 49388],
     [note |-> "C5",  frequency |-> 52325],
     [note |-> "D5",  frequency |-> 58733],
     [note |-> "E5",  frequency |-> 65925] >>

\* the names of the table
TableNotes == { AVAILABLE_NOTES[i].note : i \in 1..Len(AVAILABLE_NOTES) }

\* a name that is not in the table (spec.md's "H9")
InvalidNote == "H9"

\* the note arguments callers pass: two names of the table, and H9
NoteInputs == { "C4", "D4", InvalidNote }

\* config.volume default, and the level setVolume is called with
ConfigVolume == -6
OtherVolume == -10

\* Math.random() is drawn in thousandths: 0 and 0.14, which select C4 and D4
RandomScale == 1000
RandomDraws == { 0, 140 }

\* the constructor argument's noteRange: left out (undefined), or a restricted
\* range
Undefined == "undefined"
RestrictedRange == << "C4" >>

\* constructor(config), lines 71-78, for a config that gives at most noteRange:
\* volume: config.volume ?? -6; noteRange: config.noteRange || all the names.
\* (baseUrl and release are only handed to new Tone.Sampler.)
constructor(noteRange) ==
  [ volume |-> ConfigVolume,
    noteRange |-> IF noteRange = Undefined
                  THEN [ i \in 1..Len(AVAILABLE_NOTES) |-> AVAILABLE_NOTES[i].note ]
                  ELSE noteRange ]

(* ------------------------------- state -------------------------------- *)
VARIABLES
  sampler,        \* this.sampler: 0 is null, else the id of a Tone.Sampler
  isInitialized,  \* this.isInitialized
  isPlaying,      \* this.isPlaying
  contextRunning, \* Tone.getContext().state === 'running'
  created,        \* number of Tone.Sampler objects constructed so far
  sounding,       \* per sampler: the notes attacked and not yet released
  disposed,       \* per sampler: dispose() has been called on it
  volume,         \* this.sampler.volume.value; config.volume while the handle is null
  initCalls,      \* the initialize() calls suspended on an await
  timers,         \* the pending setTimeout callbacks: slot -> captured note
  session,        \* history: the timer slot of the latest playNote that attacked
  quiet,          \* history: no method was called since that playNote
  completed,      \* history: an initialize() resolved since construction / last dispose
  config,         \* this.config: the volume and noteRange the constructor stored
  table,          \* PitchShifter.AVAILABLE_NOTES, the array the operations read
  call            \* history: what the latest step did

vars == << sampler, isInitialized, isPlaying, contextRunning, created, sounding,
           disposed, volume, initCalls, timers, session, quiet, completed, config, table,
           call >>

NoSampler == 0
Samplers == 1..MaxSamplers
TimerSlots == 1..MaxTimers
InitSlots == 1..MaxInits
NoTimer == "none"

\* what a step reports: the method, its argument, how it ended, the signals
\* it sent to samplers in order, the timer it scheduled (0: none), whether it
\* called Tone.start(), and the sampler it constructed (0: none)
Report(op, arg, result, signals, scheduled, started, made) ==
  [ op |-> op, arg |-> arg, result |-> result, signals |-> signals,
    scheduled |-> scheduled, started |-> started, made |-> made ]

Signal(kind, s, note) == [ kind |-> kind, sampler |-> s, note |-> note ]

\* the instance fields, as an initialize() call sees them when it is called
Fields == [ sampler |-> sampler, isInitialized |-> isInitialized,
            isPlaying |-> isPlaying ]

IdleCall == [ pc |-> "idle",
              before |-> [ sampler |-> NoSampler, isInitialized |-> FALSE,
                           isPlaying |-> FALSE ] ]

\* the instance after new PitchShifter({ noteRange }), lines 47-50 and 71-78,
\* and the engine it will use
Constructed(noteRange) ==
  /\ sampler = NoSampler
  /\ isInitialized = FALSE
  /\ isPlaying = FALSE
  /\ contextRunning \in BOOLEAN
  /\ created = 0
  /\ sounding = [ s \in Samplers |-> {} ]
  /\ disposed = [ s \in Samplers |-> FALSE ]
  /\ config = constructor(noteRange)
  /\ table = AVAILABLE_NOTES
  /\ volume = config.volume
  /\ initCalls = [ c \in InitSlots |-> IdleCall ]
  /\ timers = [ t \in TimerSlots |-> NoTimer ]
  /\ session = 0
  /\ quiet = FALSE
  /\ completed = FALSE

InitWith(noteRange) ==
  /\ Constructed(noteRange)
  /\ call = Report("new", "-", "ok", << >>, 0, FALSE, NoSampler)

\* new PitchShifter()
Init == InitWith(Undefined)

\* new PitchShifter({ noteRange: ['C4'] })
RangeInit == InitWith(RestrictedRange)


(* ----------------------------- initialize ----------------------------- *)
\* a faulty guard: initialize() never takes the early return
AlreadyInitializedDropped == FALSE

\* line 84: if (this.isInitialized) { warn; return }
AlreadyInitialized == isInitialized

\* the smallest free slot for a suspended initialize() call, 0 when none
FreeInit ==
  IF \E c \in InitSlots : initCalls[c].pc = "idle"
  THEN CHOOSE c \in InitSlots :
         /\ initCalls[c].pc = "idle"
         /\ \A d \in InitSlots : initCalls[d].pc = "idle" => c <= d
  ELSE 0

\* lines 99-108: this.sampler = new Tone.Sampler(...).toDestination();
\* this.sampler.volume.value = this.config.volume.  The handle is overwritten
\* whatever it held; the sampler it held is not disposed.
CreateSampler ==
  /\ created < MaxSamplers
  /\ created' = created + 1
  /\ sampler' = created + 1
  /\ volume' = config.volume

\* initialize(), up to its first await (lines 83-112).  Already initialized:
\* warn and return.  Context not running: call Tone.start() and suspend on it.
\* Context running: create the sampler and suspend on Tone.loaded().
initialize ==
  /\ config' = config
  /\ table' = table
  /\ quiet' = FALSE
  /\ completed' = completed
  /\ IF AlreadyInitialized
     THEN /\ call' = Report("initialize", "-", "already", << >>, 0, FALSE, NoSampler)
          /\ UNCHANGED << sampler, isInitialized, isPlaying, contextRunning, created,
                          sounding, disposed, volume, initCalls, timers, session >>
     ELSE /\ FreeInit # 0
          /\ IF ~contextRunning
             THEN /\ initCalls' = [ initCalls EXCEPT ![FreeInit] =
                                      [ pc |-> "start", before |-> Fields ] ]
                  /\ call' = Report("initialize", "-", "suspended", << >>, 0, TRUE,
                                    NoSampler)
                  /\ UNCHANGED << sampler, created, volume >>
             ELSE /\ CreateSampler
                  /\ initCalls' = [ initCalls EXCEPT ![FreeInit] =
                                      [ pc |-> "load", before |-> Fields ] ]
                  /\ call' = Report("initialize", "-", "suspended", << >>, 0, FALSE,
                                    created + 1)
          /\ UNCHANGED << isInitialized, isPlaying, contextRunning, sounding, disposed,
                          timers, session >>

\* await Tone.start() resolves (lines 94-112): the context runs; the call goes
\* on to create the sampler and suspends on Tone.loaded()
initializeStarted(c) ==
  /\ config' = config
  /\ table' = table
  /\ initCalls[c].pc = "start"
  /\ contextRunning' = TRUE
  /\ CreateSampler
  /\ initCalls' = [ initCalls EXCEPT ![c].pc = "load" ]
  /\ call' = Report("resume", "-", "suspended", << >>, 0, FALSE, created + 1)
  /\ UNCHANGED << isInitialized, isPlaying, sounding, disposed, timers, session, quiet, completed >>

\* await Tone.start() rejects: the catch of lines 117-120 rethrows
initializeStartFailed(c) ==
  /\ config' = config
  /\ table' = table
  /\ initCalls[c].pc = "start"
  /\ initCalls' = [ initCalls EXCEPT ![c] = IdleCall ]
  /\ call' = Report("resume", "-", "InitializationError", << >>, 0, FALSE, NoSampler)
  /\ UNCHANGED << sampler, isInitialized, isPlaying, contextRunning, created, sounding,
                  disposed, volume, timers, session, quiet, completed >>

\* await Tone.loaded() resolves (lines 112-115): this.isInitialized = true
initializeLoaded(c) ==
  /\ config' = config
  /\ table' = table
  /\ initCalls[c].pc = "load"
  /\ isInitialized' = TRUE
  /\ completed' = TRUE
  /\ initCalls' = [ initCalls EXCEPT ![c] = IdleCall ]
  /\ call' = Report("resume", "-", "ok", << >>, 0, FALSE, NoSampler)
  /\ UNCHANGED << sampler, isPlaying, contextRunning, created, sounding, disposed,
                  volume, timers, session, quiet >>

\* await Tone.loaded() rejects: the catch of lines 117-120 rethrows; nothing
\* the call assigned is undone
initializeLoadFailed(c) ==
  /\ config' = config
  /\ table' = table
  /\ initCalls[c].pc = "load"
  /\ initCalls' = [ initCalls EXCEPT ![c] = IdleCall ]
  /\ call' = Report("resume", "-", "InitializationError", << >>, 0, FALSE, NoSampler)
  /\ UNCHANGED << sampler, isInitialized, isPlaying, contextRunning, created, sounding,
                  disposed, volume, timers, session, quiet, completed >>

(* ------------------------------ playNote ------------------------------ *)
\* a faulty validation: every name is taken to be in the table
NoteInfoFoundAny(note) == TRUE

\* a faulty validation: the name is looked up in config.noteRange
NoteInfoFoundInRange(note) ==
  \E i \in 1..Len(config.noteRange) : config.noteRange[i] = note

\* line 144: AVAILABLE_NOTES.find(n => n.note === note) !== undefined
NoteInfoFound(note) ==
  \E i \in 1..Len(table) : table[i].note = note

\* a faulty guard: playNote checks the handle only, not the flag
NotInitializedHandleOnly == sampler = NoSampler

\* line 131: if (!this.isInitialized || !this.sampler) throw
NotInitialized == ~isInitialized \/ sampler = NoSampler

\* a faulty guard: playNote never skips
AlreadyPlayingDropped == FALSE

\* line 135: if (this.isPlaying) { warn; return }
AlreadyPlaying == isPlaying

\* the smallest free timer slot, 0 when none
FreeTimer ==
  IF \E t \in TimerSlots : timers[t] = NoTimer
  THEN CHOOSE t \in TimerSlots :
         /\ timers[t] = NoTimer
         /\ \A u \in TimerSlots : timers[u] = NoTimer => t <= u
  ELSE 0

\* a faulty catch: the flag set at line 141 is left set
PlayingAfterCatchKept == TRUE

\* line 164, in the catch: this.isPlaying = false
PlayingAfterCatch == FALSE

\* The body of playNote(note, duration, velocity), lines 130-168: the method
\* has no await, so it runs to its end in one step.  attackThrows: whether
\* sampler.triggerAttack throws.  The duration decides only when the timer
\* fires, which releaseTimer leaves open.  op: the public method that was
\* called, playNote itself or playRandomNote, which delegates to it.
PlayNoteBody(op, note, attackThrows) ==
  /\ config' = config
  /\ table' = table
  /\ quiet' = ( ~NotInitialized /\ ~AlreadyPlaying /\ NoteInfoFound(note)
                /\ ~attackThrows )
  /\ completed' = completed
  /\ IF NotInitialized
     THEN /\ call' = Report(op, note, "NotInitializedError", << >>, 0, FALSE,
                            NoSampler)
          /\ UNCHANGED << sampler, isInitialized, isPlaying, contextRunning, created,
                          sounding, disposed, volume, initCalls, timers, session >>
     ELSE IF AlreadyPlaying
     THEN /\ call' = Report(op, note, "skipped", << >>, 0, FALSE, NoSampler)
          /\ UNCHANGED << sampler, isInitialized, isPlaying, contextRunning, created,
                          sounding, disposed, volume, initCalls, timers, session >>
     ELSE IF ~NoteInfoFound(note)
     THEN \* lines 141-147 and the catch of 163-167
          /\ isPlaying' = PlayingAfterCatch
          /\ call' = Report(op, note, "InvalidNoteError", << >>, 0, FALSE,
                            NoSampler)
          /\ UNCHANGED << sampler, isInitialized, contextRunning, created, sounding,
                          disposed, volume, initCalls, timers, session >>
     ELSE IF attackThrows
     THEN \* line 152 throws, the catch of 163-167
          /\ isPlaying' = PlayingAfterCatch
          /\ call' = Report(op, note, "AttackError",
                            << Signal("triggerAttack", sampler, note) >>, 0, FALSE,
                            NoSampler)
          /\ UNCHANGED << sampler, isInitialized, contextRunning, created, sounding,
                          disposed, volume, initCalls, timers, session >>
     ELSE \* lines 141-161
          /\ FreeTimer # 0
          /\ isPlaying' = TRUE
          /\ sounding' = [ sounding EXCEPT ![sampler] = @ \cup {note} ]
          /\ timers' = [ timers EXCEPT ![FreeTimer] = note ]
          /\ session' = FreeTimer
          /\ call' = Report(op, note, "ok",
                            << Signal("triggerAttack", sampler, note) >>, FreeTimer,
                            FALSE, NoSampler)
          /\ UNCHANGED << sampler, isInitialized, contextRunning, created, disposed,
                          volume, initCalls >>

\* playNote(note, duration, velocity), lines 130-168
playNote(note, attackThrows) == PlayNoteBody("playNote", note, attackThrows)

\* lines 177-179: AVAILABLE_NOTES[Math.floor(Math.random() * length)], with
\* Math.random() = random / RandomScale in [0, 1)
RandomNote(random) ==
  table[((random * Len(table)) \div RandomScale) + 1]

\* playRandomNote(duration), lines 176-186: draws an entry and awaits
\* playNote, which has run to its end when the await begins; the entry is
\* returned unless playNote threw.  The step reports the drawn name as its
\* argument and playNote's outcome as its result.
playRandomNote(random, attackThrows) ==
  PlayNoteBody("playRandomNote", RandomNote(random).note, attackThrows)

\* a faulty timer: the callback stays scheduled after it ran (setInterval)
TimersAfterFiringKept(t) == timers

\* line 155: setTimeout runs its callback once; the timer is gone afterwards
TimersAfterFiring(t) == [ timers EXCEPT ![t] = NoTimer ]

\* a faulty callback: the handle is used without the test
TimerSeesSamplerAlways == TRUE

\* line 156: if (this.sampler)
TimerSeesSampler == sampler # NoSampler

\* the setTimeout callback of lines 155-161, with the note it captured
releaseTimer(t) ==
  /\ config' = config
  /\ table' = table
  /\ timers[t] # NoTimer
  /\ timers' = TimersAfterFiring(t)
  /\ IF TimerSeesSampler
     THEN /\ sounding' = [ sounding EXCEPT ![sampler] = @ \ {timers[t]} ]
          /\ call' = Report("timer", timers[t], "ok",
                            << Signal("triggerRelease", sampler, timers[t]) >>, t,
                            FALSE, NoSampler)
     ELSE /\ sounding' = sounding
          /\ call' = Report("timer", timers[t], "ok", << >>, t, FALSE, NoSampler)
  /\ isPlaying' = FALSE
  /\ session' = IF session = t THEN 0 ELSE session
  /\ UNCHANGED << sampler, isInitialized, contextRunning, created, disposed, volume,
                  initCalls, quiet, completed >>

(* ------------------- stopNote, stopAll, setVolume --------------------- *)
\* lines 192, 206, 220: if (!this.sampler) { warn 'Not initialized'; return }
NoSamplerGuard == sampler = NoSampler

\* a faulty stop: the playing flag is left as it was
PlayingAfterStopKept == isPlaying

\* lines 198, 212: this.isPlaying = false
PlayingAfterStop == FALSE

\* stopNote(note), lines 191-200
stopNote(note) ==
  /\ config' = config
  /\ table' = table
  /\ quiet' = FALSE
  /\ completed' = completed
  /\ IF NoSamplerGuard
     THEN /\ call' = Report("stopNote", note, "warned", << >>, 0, FALSE, NoSampler)
          /\ UNCHANGED << sampler, isInitialized, isPlaying, contextRunning, created,
                          sounding, disposed, volume, initCalls, timers, session >>
     ELSE /\ sounding' = [ sounding EXCEPT ![sampler] = @ \ {note} ]
          /\ isPlaying' = PlayingAfterStop
          /\ session' = 0
          /\ call' = Report("stopNote", note, "ok",
                            << Signal("triggerRelease", sampler, note) >>, 0, FALSE,
                            NoSampler)
          /\ UNCHANGED << sampler, isInitialized, contextRunning, created, disposed,
                          volume, initCalls, timers >>

\* stopAll(), lines 205-214
stopAll ==
  /\ config' = config
  /\ table' = table
  /\ quiet' = FALSE
  /\ completed' = completed
  /\ IF NoSamplerGuard
     THEN /\ call' = Report("stopAll", "-", "warned", << >>, 0, FALSE, NoSampler)
          /\ UNCHANGED << sampler, isInitialized, isPlaying, contextRunning, created,
                          sounding, disposed, volume, initCalls, timers, session >>
     ELSE /\ sounding' = [ sounding EXCEPT ![sampler] = {} ]
          /\ isPlaying' = PlayingAfterStop
          /\ session' = 0
          /\ call' = Report("stopAll", "-", "ok",
                            << Signal("releaseAll", sampler, "-") >>, 0, FALSE,
                            NoSampler)
          /\ UNCHANGED << sampler, isInitialized, contextRunning, created, disposed,
                          volume, initCalls, timers >>

\* setVolume(volumeDb), lines 219-227
setVolume(volumeDb) ==
  /\ config' = config
  /\ table' = table
  /\ quiet' = FALSE
  /\ completed' = completed
  /\ IF NoSamplerGuard
     THEN /\ call' = Report("setVolume", "-", "warned", << >>, 0, FALSE, NoSampler)
          /\ UNCHANGED << sampler, isInitialized, isPlaying, contextRunning, created,
                          sounding, disposed, volume, initCalls, timers, session >>
     ELSE /\ volume' = volumeDb
          /\ call' = Report("setVolume", "-", "ok",
                            << Signal("volume", sampler, "-") >>, 0, FALSE, NoSampler)
          /\ UNCHANGED << sampler, isInitialized, isPlaying, contextRunning, created,
                          sounding, disposed, initCalls, timers, session >>

(* ------------------------------ dispose ------------------------------- *)
\* a faulty dispose: the handle is not cleared
HandleAfterDisposeKept == sampler

\* line 267: this.sampler = null
HandleAfterDispose == NoSampler

\* a faulty dispose: the playing flag is left as it was
PlayingAfterDisposeKept == isPlaying

\* line 271: this.isPlaying = false
PlayingAfterDispose == FALSE

\* dispose(), lines 264-273
dispose ==
  /\ config' = config
  /\ table' = table
  /\ quiet' = FALSE
  /\ completed' = FALSE
  /\ IF sampler # NoSampler
     THEN /\ disposed' = [ disposed EXCEPT ![sampler] = TRUE ]
          /\ sounding' = [ sounding EXCEPT ![sampler] = {} ]
          /\ sampler' = HandleAfterDispose
          /\ volume' = config.volume
          /\ call' = Report("dispose", "-", "ok",
                            << Signal("dispose", sampler, "-") >>, 0, FALSE, NoSampler)
     ELSE /\ call' = Report("dispose", "-", "ok", << >>, 0, FALSE, NoSampler)
          /\ UNCHANGED << sampler, disposed, sounding, volume >>
  /\ isInitialized' = FALSE
  /\ isPlaying' = PlayingAfterDispose
  /\ session' = 0
  /\ UNCHANGED << contextRunning, created, initCalls, timers >>

\* isCurrentlyPlaying(), lines 257-259
isCurrentlyPlaying == isPlaying

(* --------------------------- specification ---------------------------- *)
Next ==
  \/ initialize
  \/ \E c \in InitSlots : initializeStarted(c)
  \/ \E c \in InitSlots : initializeStartFailed(c)
  \/ \E c \in InitSlots : initializeLoaded(c)
  \/ \E c \in InitSlots : initializeLoadFailed(c)
  \/ \E note \in NoteInputs, attackThrows \in BOOLEAN : playNote(note, attackThrows)
  \/ \E random \in RandomDraws, attackThrows \in BOOLEAN :
       playRandomNote(random, attackThrows)
  \/ \E t \in TimerSlots : releaseTimer(t)
  \/ \E note \in NoteInputs : stopNote(note)
  \/ stopAll
  \/ \E v \in {ConfigVolume, OtherVolume} : setVolume(v)
  \/ dispose

Spec == Init /\ [][Next]_vars

\* the same instance, constructed with a restricted noteRange
RangeSpec == RangeInit /\ [][Next]_vars

\* The event loop runs every setTimeout callback once its delay is over: a
\* pending release timer is not left waiting forever.  Callers are under no
\* obligation to call anything.
TimerFairness == \A t \in TimerSlots : WF_vars(releaseTimer(t))

\* The callers of the fair specification: every method is called, in any
\* order and any number of times, with one note of the table (which note is
\* played plays no part in when a timer fires or in what clears the flag).
FairNext ==
  \/ initialize
  \/ \E c \in InitSlots : initializeStarted(c)
  \/ \E c \in InitSlots : initializeStartFailed(c)
  \/ \E c \in InitSlots : initializeLoaded(c)
  \/ \E c \in InitSlots : initializeLoadFailed(c)
  \/ \E attackThrows \in BOOLEAN : playNote("C4", attackThrows)
  \/ \E attackThrows \in BOOLEAN : playRandomNote(0, attackThrows)
  \/ \E t \in TimerSlots : releaseTimer(t)
  \/ stopNote("C4")
  \/ stopAll
  \/ setVolume(OtherVolume)
  \/ dispose

FairSpec == Init /\ [][FairNext]_vars /\ TimerFairness


(* ------------------------- getNoteByFrequency ------------------------- *)
\* the largest frequency looked up, in hundredths of a Hz (10000 Hz)
MaxFrequency == 1000000

Abs(x) == IF x < 0 THEN -x ELSE x

\* a faulty comparison: an equally close later entry replaces the earlier one
CloserOrEqual(diff, minDiff) == diff <= minDiff

\* line 245: if (diff < minDiff)
Closer(diff, minDiff) == diff < minDiff

\* the loop of lines 243-249, from entry i on
RECURSIVE Scan(_, _, _, _)
Scan(frequency, i, closestNote, minDiff) ==
  IF i > Len(table)
  THEN closestNote
  ELSE LET noteInfo == table[i]
           diff == Abs(frequency - noteInfo.frequency)
       IN  IF Closer(diff, minDiff)
           THEN Scan(frequency, i + 1, noteInfo, diff)
           ELSE Scan(frequency, i + 1, closestNote, minDiff)

\* static getNoteByFrequency(frequency), lines 239-252
getNoteByFrequency(frequency) ==
  Scan(frequency, 1, table[1], Abs(frequency - table[1].frequency))

\* the frequencies looked up: 0, each entry's frequency and its neighbours,
\* the two integers around the middle of each pair of adjacent entries, and
\* MaxFrequency
FrequencyInputs ==
  {0, MaxFrequency}
  \cup { AVAILABLE_NOTES[i].frequency + d : i \in 1..Len(AVAILABLE_NOTES), d \in {-1, 0, 1} }
  \cup { ((AVAILABLE_NOTES[i].frequency + AVAILABLE_NOTES[i + 1].frequency) \div 2) + d :
           i \in 1..(Len(AVAILABLE_NOTES) - 1), d \in {0, 1} }

\* a caller about to look up a frequency
FreqInit ==
  /\ Constructed(Undefined)
  /\ \E f \in FrequencyInputs :
       call = Report("getNoteByFrequency", f, "pending", << >>, 0, FALSE, NoSampler)

\* the call of getNoteByFrequency: the step reports the name of the entry
\* returned; the method is static and touches no instance
lookupByFrequency ==
  /\ call.op = "getNoteByFrequency" /\ call.result = "pending"
  /\ call' = [ call EXCEPT !.result = getNoteByFrequency(call.arg).note ]
  /\ UNCHANGED << sampler, isInitialized, isPlaying, contextRunning, created,
                  sounding, disposed, volume, initCalls, timers, session, quiet,
                  completed, config, table >>

FreqNext == lookupByFrequency

FreqSpec == FreqInit /\ [][FreqNext]_vars

(* ----------------------------- properties ----------------------------- *)
\* the state of the instance and of the engine, without the history variables
program == << sampler, isInitialized, isPlaying, contextRunning, created, sounding,
              disposed, volume, initCalls, timers >>

\* the notes sounding in the engine: attacked on a sampler and since then
\* neither released, nor released by releaseAll, nor disposed with it
SoundingNotes == { sn \in Samplers \X TableNotes : sn[2] \in sounding[sn[1]] }

\* C1: in every reachable state at most one note is sounding in the engine.
C1_SingleVoice == Cardinality(SoundingNotes) <= 1

\* C2: playNote on an initialized instance whose playing flag is true is a
\* no-op: no error, no attack, no timer, playing stays true and nothing else
\* changes, whatever the note name.
C2_PlayWhilePlayingIsNoOp ==
  [][ (call'.op = "playNote" /\ isInitialized /\ isPlaying) =>
        /\ call'.result = "skipped"
        /\ call'.signals = << >>
        /\ call'.scheduled = 0
        /\ isPlaying'
        /\ UNCHANGED << program, session >> ]_vars

\* C2's case: a playNote with a name outside the table was skipped while a
\* note was playing
C2_Witness ==
  /\ call.op = "playNote" /\ call.arg = InvalidNote /\ call.result = "skipped"
  /\ isInitialized /\ isPlaying

\* C3: playNote on an initialized, non-playing instance with a name of the
\* table sets playing, issues exactly one attack for the note, schedules
\* exactly one release timer for it and returns with the release not yet
\* issued.  (As in spec.md 4.2, "On success": the
\* engine is taken to accept the attack.)
C3_PlayStartsSession ==
  [][ ( /\ call'.op = "playNote" /\ call'.arg \in TableNotes
        /\ isInitialized /\ ~isPlaying
        /\ call'.result # "AttackError" ) =>
        /\ call'.result = "ok"
        /\ isPlaying'
        /\ call'.signals = << Signal("triggerAttack", sampler, call'.arg) >>
        /\ call'.scheduled \in TimerSlots
        /\ timers[call'.scheduled] = NoTimer
        /\ timers' = [ timers EXCEPT ![call'.scheduled] = call'.arg ] ]_vars

\* C4: after a playNote that attacked, with no method called since,
\* isCurrentlyPlaying() is true exactly as long as that call's release timer
\* has not fired.
C4_AutoRelease == quiet => (isCurrentlyPlaying <=> session # 0)

\* C5: from a playNote's attack until that call's own release timer fires or a
\* stopNote / stopAll / dispose executes, the playing flag is true.
C5_SessionKeepsPlaying == session # 0 => isPlaying

\* C6: playNote, called when no initialize() has resolved since construction
\* or the last dispose, fails with the not-initialized error, issues no
\* attack, schedules no timer and changes nothing.
C6_PlayBeforeInitFails ==
  [][ (call'.op = "playNote" /\ ~completed) =>
        /\ call'.result = "NotInitializedError"
        /\ call'.signals = << >>
        /\ call'.scheduled = 0
        /\ UNCHANGED << program, session >> ]_vars

\* C6's case: playNote failed while an initialize() was still waiting for the
\* sample, the handle already set
C6_Witness ==
  /\ call.op = "playNote" /\ call.result = "NotInitializedError"
  /\ ~completed /\ sampler # NoSampler
  /\ \E c \in InitSlots : initCalls[c].pc = "load"

\* C7: stopNote, stopAll and setVolume, called while the initialized flag is
\* false, return with the warning, send no signal and change nothing.
C7_StopBeforeInitIsNoOp ==
  [][ (call'.op \in {"stopNote", "stopAll", "setVolume"} /\ ~isInitialized) =>
        /\ call'.result = "warned"
        /\ call'.signals = << >>
        /\ UNCHANGED << program, session >> ]_vars

\* C8 as stated: playNote on an initialized instance with a name outside the
\* table fails with the invalid-note error, issues no attack, schedules no
\* timer, and isCurrentlyPlaying() is false afterwards.
C8_Original ==
  [][ (call'.op = "playNote" /\ call'.arg \notin TableNotes /\ isInitialized) =>
        /\ call'.result = "InvalidNoteError"
        /\ call'.signals = << >>
        /\ call'.scheduled = 0
        /\ ~isCurrentlyPlaying' ]_vars

\* C8 as amended: playNote on an initialized instance that is not playing,
\* with a name outside the table, fails - with the invalid-note error when
\* the handle is set, with the not-initialized error when it is null -,
\* issues no attack, schedules no timer, and isCurrentlyPlaying() is false
\* afterwards; nothing else changes.
C8_InvalidNoteRejected ==
  [][ ( /\ call'.op = "playNote" /\ call'.arg \notin TableNotes
        /\ isInitialized /\ ~isPlaying ) =>
        /\ call'.result = IF sampler = NoSampler THEN "NotInitializedError"
                                                 ELSE "InvalidNoteError"
        /\ call'.signals = << >>
        /\ call'.scheduled = 0
        /\ ~isCurrentlyPlaying'
        /\ UNCHANGED << program, session >> ]_vars

\* C8's case: a playNote with a name outside the table has just failed with
\* the invalid-note error on an initialized instance
C8_Witness ==
  /\ call.op = "playNote" /\ call.arg = InvalidNote
  /\ call.result = "InvalidNoteError"
  /\ isInitialized /\ ~isCurrentlyPlaying

\* C9: initialize() called with the initialized flag true returns without
\* error, creates no sampler, does not start the audio context and leaves the
\* handle, initialized and playing (and everything else) unchanged.
C9_InitializeIdempotent ==
  [][ (call'.op = "initialize" /\ isInitialized) =>
        /\ call'.result = "already"
        /\ call'.made = NoSampler
        /\ ~call'.started
        /\ UNCHANGED << program, session >> ]_vars

\* C9's case: initialize() has just returned early on an initialized instance
\* that is playing a note
C9_Witness ==
  /\ call.op = "initialize" /\ call.result = "already"
  /\ isInitialized /\ isPlaying /\ sampler # NoSampler

\* C10: when an initialize() call fails on Tone.start() or Tone.loaded(), the
\* initialized flag is false afterwards and the instance's fields are what
\* they were when the call was made.
C10_FailedInitLeavesStateAsBefore ==
  [][ \A c \in InitSlots :
        ( /\ initCalls[c].pc # "idle" /\ initCalls'[c].pc = "idle"
          /\ call'.op = "resume" /\ call'.result = "InitializationError" ) =>
          /\ ~isInitialized'
          /\ Fields' = initCalls[c].before ]_vars

\* C11: dispose() leaves playing false, initialized false and the handle
\* null; from then on playNote fails with the not-initialized error as long
\* as no initialize() has returned successfully, and once one has, a playNote
\* with a name of the table (the instance not playing, the engine accepting
\* the attack) issues its attack.
C11_DisposeThenReinitialize ==
  [][ /\ call'.op = "dispose" =>
           ~isCurrentlyPlaying' /\ ~isInitialized' /\ sampler' = NoSampler
      /\ (call'.op = "playNote" /\ ~completed) =>
           call'.result = "NotInitializedError"
      /\ ( /\ call'.op = "playNote" /\ completed /\ ~isPlaying
           /\ call'.arg \in TableNotes /\ call'.result # "AttackError" ) =>
           /\ call'.result = "ok"
           /\ call'.signals = << Signal("triggerAttack", sampler, call'.arg) >> ]_vars

\* C12: dispose() raises no error; with the handle null it invokes no engine
\* operation and, right after another dispose(), changes nothing; with a
\* handle it disposes that sampler, which was not disposed before, and clears
\* the handle.
C12_DisposeRepeatable ==
  [][ call'.op = "dispose" =>
        /\ call'.result = "ok"
        /\ sampler' = NoSampler /\ ~isInitialized' /\ ~isPlaying'
        /\ sampler = NoSampler => call'.signals = << >> /\ disposed' = disposed
        /\ sampler # NoSampler =>
             /\ ~disposed[sampler]
             /\ call'.signals = << Signal("dispose", sampler, "-") >>
        /\ call.op = "dispose" => UNCHANGED << program, session >> ]_vars

\* C12's case: dispose() has just been called again after a dispose() that
\* disposed a sampler
C12_Witness ==
  /\ call.op = "dispose" /\ call.signals = << >>
  /\ sampler = NoSampler
  /\ \E s \in Samplers : disposed[s]

\* C13: the handle is null in every state in which no initialize() has
\* returned successfully since construction or the last dispose(); dispose()
\* leaves it null, and only an initialize() that runs sets it again.
C13_HandleNullUntilInitialized ==
  /\ [](~completed => sampler = NoSampler)
  /\ [][ /\ call'.op = "dispose" => sampler' = NoSampler
         /\ (sampler = NoSampler /\ sampler' # NoSampler) =>
              call'.op \in {"initialize", "resume"} ]_vars

\* C14: every sampler the instance has created is its current handle or has
\* been disposed.
C14_NoOrphanSampler ==
  \A s \in Samplers : s <= created => (s = sampler \/ disposed[s])

\* C15: stopNote(n) on an instance with a handle issues exactly one release,
\* for n, and sets playing to false, whatever n is and whatever is sounding;
\* a sounding note other than n stays sounding; initialized and the handle
\* are unchanged.
C15_StopNoteReleasesAndClears ==
  [][ (call'.op = "stopNote" /\ sampler # NoSampler) =>
        /\ call'.result = "ok"
        /\ call'.signals = << Signal("triggerRelease", sampler, call'.arg) >>
        /\ ~isPlaying'
        /\ sounding' = [ sounding EXCEPT ![sampler] = @ \ {call'.arg} ]
        /\ UNCHANGED << sampler, isInitialized >> ]_vars

\* C15's case: stopNote('D4') was called while C4 was playing: playing is
\* cleared and C4 still sounds
C15_Witness ==
  /\ call.op = "stopNote" /\ call.arg = "D4" /\ call.result = "ok"
  /\ sampler # NoSampler /\ "C4" \in sounding[sampler]
  /\ ~isPlaying /\ isInitialized

\* C16: stopAll() on an initialized instance issues one release-all and sets
\* playing to false; right afterwards no note sounds in the engine and a
\* playNote would pass both of its guards; initialized and the handle are
\* unchanged.
C16_StopAllSilences ==
  [][ (call'.op = "stopAll" /\ isInitialized) =>
        /\ call'.signals = << Signal("releaseAll", sampler, "-") >>
        /\ ~isPlaying'
        /\ SoundingNotes' = {}
        /\ ~NotInitialized' /\ ~AlreadyPlaying'
        /\ UNCHANGED << sampler, isInitialized >> ]_vars

\* C17: playRandomNote on an initialized instance (the engine accepting the
\* attack) returns the entry it drew, an entry of the table, both when
\* playNote attacked it and when playNote skipped it because a note was
\* playing; it fails with no error.
C17_RandomNoteReturned ==
  [][ ( /\ call'.op = "playRandomNote" /\ isInitialized
        /\ call'.result # "AttackError" ) =>
        /\ call'.arg \in TableNotes
        /\ call'.result = IF isPlaying THEN "skipped" ELSE "ok"
        /\ ~isPlaying =>
             call'.signals = << Signal("triggerAttack", sampler, call'.arg) >> ]_vars

\* the names in config.noteRange
NoteRange == { config.noteRange[i] : i \in 1..Len(config.noteRange) }

\* C18: no step changes the configuration, and playNote with a name of the
\* table that is not in config.noteRange is never rejected as invalid: when
\* it passes the two guards (and the engine accepts the attack) it issues the
\* attack.
C18_ValidatesAgainstTableOnly ==
  [][ /\ config' = config
      /\ ( /\ call'.op = "playNote"
           /\ call'.arg \in TableNotes /\ call'.arg \notin NoteRange ) =>
           /\ call'.result # "InvalidNoteError"
           /\ ( /\ isInitialized /\ sampler # NoSampler /\ ~isPlaying
                /\ call'.result # "AttackError" ) =>
                /\ call'.result = "ok"
                /\ call'.signals =
                     << Signal("triggerAttack", sampler, call'.arg) >> ]_vars

\* C18's case: on an instance constructed with noteRange ['C4'], playNote('D4')
\* has attacked D4
C18_Witness ==
  /\ config.noteRange = RestrictedRange
  /\ call.op = "playNote" /\ call.arg = "D4" /\ call.result = "ok"
  /\ sampler # NoSampler /\ "D4" \in sounding[sampler] /\ isPlaying

\* the index of the table entry with the given name
IndexOf(name) ==
  CHOOSE i \in 1..Len(AVAILABLE_NOTES) : AVAILABLE_NOTES[i].note = name

\* C19: getNoteByFrequency returns, for every frequency, an entry at the
\* smallest absolute distance, the earliest such entry in the table, the
\* first entry at or below 261.63 Hz and the last at or above 659.25 Hz.
C19_NearestEntry ==
  (call.op = "getNoteByFrequency" /\ call.result # "pending") =>
    LET f == call.arg
        r == IndexOf(call.result)
        dist(i) == Abs(f - AVAILABLE_NOTES[i].frequency)
    IN  /\ call.result \in TableNotes
        /\ \A j \in 1..Len(AVAILABLE_NOTES) : dist(r) <= dist(j)
        /\ \A j \in 1..(r - 1) : dist(j) > dist(r)
        /\ f <= 26163 => r = 1
        /\ f >= 65925 => r = 15

\* C19's case: 285.42 Hz is as far from C#4 as from D4, and C#4 was returned
C19_Witness ==
  /\ call.op = "getNoteByFrequency" /\ call.arg = 28542 /\ call.result = "C#4"
  /\ Abs(28542 - 27718) = Abs(28542 - 29366)

\* the table is as the source lists it: 15 entries, distinct names, strictly
\* increasing frequencies, from C4 at 261.63 Hz to E5 at 659.25 Hz
WellFormed(t) ==
  /\ Len(t) = 15
  /\ \A i, j \in 1..Len(t) : i # j => t[i].note # t[j].note
  /\ \A i \in 1..(Len(t) - 1) : t[i].frequency < t[i + 1].frequency
  /\ t[1] = [note |-> "C4", frequency |-> 26163]
  /\ t[Len(t)] = [note |-> "E5", frequency |-> 65925]

\* C20: in every state the table has 15 entries, pairwise distinct names and
\* strictly increasing frequencies, starts with C4 at 261.63 Hz and ends with
\* E5 at 659.25 Hz; and no step of any operation changes the table.
C20_TableWellFormed ==
  /\ [] WellFormed(table)
  /\ [][ table' = table ]_vars

\* C20's case: playRandomNote has drawn an entry of the table and a note of
\* it is sounding
C20_Witness ==
  /\ call.op = "playRandomNote" /\ call.result = "ok"
  /\ call.arg = table[3].note
  /\ sampler # NoSampler /\ call.arg \in sounding[sampler]

\* C21: a step that is not the firing of a release timer removes no pending
\* timer (neither stopNote, stopAll nor dispose cancels one); the firing of
\* timer t needs t pending and removes t and no other, so a timer fires once;
\* and, the event loop being fair to timers, every pending timer fires.
C21_TimersNeverCancelled ==
  /\ [][ /\ call'.op # "timer" =>
              \A t \in TimerSlots : timers[t] # NoTimer => timers'[t] = timers[t]
         /\ call'.op = "timer" =>
              /\ timers[call'.scheduled] # NoTimer
              /\ timers' = [ timers EXCEPT ![call'.scheduled] = NoTimer ] ]_vars
  /\ \A t \in TimerSlots :
       (timers[t] # NoTimer) ~> (call.op = "timer" /\ call.scheduled = t)

\* C21's case: dispose has run and the timer of a playNote
\* before it is still pending
C21_Witness ==
  /\ call.op = "dispose" /\ sampler = NoSampler /\ ~isPlaying
  /\ \E t \in TimerSlots : timers[t] # NoTimer

\* C22: the firing of a release timer that an earlier playNote scheduled
\* than the one whose session is in progress (the earlier session has been
\* ended since, in the shortest case by stopNote or stopAll) does not release
\* the note that the later playNote attacked and that sounds on the handle.
C22_StaleReleaseHarmless ==
  [][ ( /\ call'.op = "timer"
        /\ session # 0 /\ session # call'.scheduled
        /\ sampler # NoSampler /\ timers[session] \in sounding[sampler] ) =>
        timers[session] \in sounding'[sampler] ]_vars

\* C23: a release timer that fires while the handle is null and no
\* initialize() has resolved since the dispose sends no signal, ends without
\* error, and leaves the handle null and the two flags false.
C23_TimerAfterDisposeIsNoOp ==
  [][ (call'.op = "timer" /\ sampler = NoSampler /\ ~completed) =>
        /\ call'.signals = << >>
        /\ call'.result = "ok"
        /\ sampler' = NoSampler /\ ~isInitialized' /\ ~isPlaying'
        /\ UNCHANGED << sounding, disposed, volume, created >> ]_vars

\* C23's case: a timer has fired after dispose() and sent nothing
C23_Witness ==
  /\ call.op = "timer" /\ call.signals = << >>
  /\ sampler = NoSampler /\ ~isInitialized /\ ~completed
  /\ \E s \in Samplers : disposed[s]

\* C24: a playNote that passes both guards with a name of the table either
\* attacks and schedules its release, or - the attack failing - ends with the
\* engine's error; in that case the playing flag is false afterwards, no
\* timer was scheduled and nothing sounds that did not before, so the
\* single-voice guard does not skip the next playNote.
C24_FailedAttackResetsPlaying ==
  [][ ( /\ call'.op \in {"playNote", "playRandomNote"}
        /\ isInitialized /\ sampler # NoSampler /\ ~isPlaying
        /\ call'.arg \in TableNotes ) =>
        /\ call'.result \in {"ok", "AttackError"}
        /\ call'.result = "AttackError" =>
             /\ ~isPlaying'
             /\ call'.scheduled = 0 /\ timers' = timers
             /\ sounding' = sounding
             /\ UNCHANGED << sampler, isInitialized >> ]_vars

\* C24's case: the attack of playNote('C4') has failed on an initialized
\* instance, which is not playing
C24_Witness ==
  /\ call.op = "playNote" /\ call.arg = "C4" /\ call.result = "AttackError"
  /\ isInitialized /\ sampler # NoSampler /\ ~isPlaying

\* C25: whenever isInitialized is true the handle is non-null.
C25_InitializedHasHandle == isInitialized => sampler # NoSampler

\* C26: whenever isPlaying is true the instance is initialized, has a handle
\* and has a release timer pending; and, the event loop being fair to timers,
\* a true flag becomes false.
C26_PlayingHasPendingTimer ==
  /\ [] ( isPlaying => /\ isInitialized /\ sampler # NoSampler
                       /\ \E t \in TimerSlots : timers[t] # NoTimer )
  /\ isPlaying ~> ~isPlaying

\* C26's case: a note is playing while the timer of an earlier playNote is
\* pending too
C26_Witness ==
  /\ isPlaying /\ isInitialized
  /\ \A t \in TimerSlots : timers[t] # NoTimer

\* C27: every signal a step sends goes to a sampler that was not disposed
\* before the step, and the handle is never a disposed sampler.
C27_NoSignalAfterDispose ==
  /\ [] ( sampler # NoSampler => ~disposed[sampler] )
  /\ [][ \A i \in 1..Len(call'.signals) :
           /\ call'.signals[i].sampler \in Samplers
           /\ ~disposed[call'.signals[i].sampler] ]_vars

\* C27's case: after a dispose() and a new initialize(), the timer of a
\* playNote from before the dispose has fired and sent its release to the
\* new sampler
C27_Witness ==
  /\ call.op = "timer" /\ Len(call.signals) = 1
  /\ \E s \in Samplers : disposed[s] /\ s # call.signals[1].sampler
  /\ ~disposed[call.signals[1].sampler]

====
